---- MODULE Spec2Model ----
(***************************************************************************)
(* Model of ardupilot_mcp_server.py: six tool operations (arm, disarm,     *)
(* takeoff, change_mode, get_status, get_position), each of which opens a  *)
(* MAVLink connection, waits for a heartbeat, talks to the vehicle and     *)
(* closes the connection in a finally block.                               *)
(*                                                                         *)
(* The pymavlink connection object and the vehicle behind it are the       *)
(* environment: a receive call returns a message or, when it was given a   *)
(* timeout, None; any library call inside the try block may raise.         *)
(* Strings that the code transforms (mode names) are sequences of          *)
(* one-character strings; an optional value is <<>> (None) or <<v>>.       *)
(***************************************************************************)
EXTENDS Integers, Sequences, FiniteSets, TLC

\* ---------------------------------------------------------------- bounds
NumInv == 2
TickStep == 5

Invocations == 1..NumInv
SessionIds == 1..NumInv

\* ------------------------------------------------------ program constants
LivenessTimeout == 10
AckTimeout == 10
PositionTimeout == 5
ModeConfirmWindow == 5
NoTimeout == 0 - 1

MAV_RESULT_ACCEPTED == 0
MAV_RESULT_FAILED == 4
MAV_STATE_STANDBY == 3
MAV_STATE_ACTIVE == 4

\* ---------------------------------------------------------------- strings
LowerCase == <<"a","b","c","d","e","f","g","h","i","j","k","l","m",
               "n","o","p","q","r","s","t","u","v","w","x","y","z">>
UpperCase == <<"A","B","C","D","E","F","G","H","I","J","K","L","M",
               "N","O","P","Q","R","S","T","U","V","W","X","Y","Z">>

UpperChar(c) ==
    IF \E k \in 1..26 : LowerCase[k] = c
    THEN UpperCase[CHOOSE k \in 1..26 : LowerCase[k] = c]
    ELSE c

\* str.upper()
Upper(s) == [k \in 1..Len(s) |-> UpperChar(s[k])]

GUIDED == <<"G","U","I","D","E","D">>
STABILIZE == <<"S","T","A","B","I","L","I","Z","E">>
LOITER == <<"L","O","I","T","E","R">>
UNKNOWN == <<"U","N","K","N","O","W","N">>

None == <<>>
Some(v) == <<v>>

\* ------------------------------------------------------------ operations
Ops == {"arm", "disarm", "takeoff", "change_mode", "get_status", "get_position"}

\* Arguments the caller may pass: takeoff(altitude), change_mode(mode).
Altitudes == {10, 15}
ModeArgs == { <<"g","u","i","d","e","d">>,
              <<"S","t","a","b","i","l","i","z","e">>,
              <<"b","o","g","u","s">> }

ArgsOf(o) ==
    CASE o = "takeoff" -> [alt : Altitudes, mode : {None}]
      [] o = "change_mode" -> [alt : {0}, mode : ModeArgs]
      [] OTHER -> [alt : {0}, mode : {None}]

\* mode_mapping(): the vehicle's mode table, name -> id.
ModeTables == { (STABILIZE :> 0) @@ (GUIDED :> 4),
                (STABILIZE :> 0) @@ (LOITER :> 5) }

\* dict.get(key): None when the key is missing.
Get(table, key) == IF key \in DOMAIN table THEN Some(table[key]) ELSE None

\* ---------------------------------------------------------------- results
\* A returned value or a propagated exception.  kind: "none" while the
\* invocation runs, "str" / "dict" for a return value, "exception" for an
\* exception that leaves the operation.
Res(kind, msg, mode, alt, data) ==
    [kind |-> kind, msg |-> msg, mode |-> mode, alt |-> alt, data |-> data]
NoResult == Res("none", "", None, 0, None)
Str(msg) == Res("str", msg, None, 0, None)
Exc(what) == Res("exception", what, None, 0, None)

MsgConnTimeout == Str("ERR_CONNECTION_TIMEOUT")
MsgArmed == Str("ARMED")
MsgArmError == Str("ERR_EXCEPTION_TEXT_WITH_HINTS")
MsgDisarmed == Str("DISARMED")
MsgTakeoffRejected == Str("ERR_TAKEOFF_REJECTED")
MsgTakeoffStarted(altitude) == Res("str", "TAKEOFF_STARTED", None, altitude, None)
MsgInvalidMode(mode) == Res("str", "INVALID_MODE", mode, 0, None)
MsgModeChanged(mode) == Res("str", "MODE_CHANGED", Upper(mode), 0, None)
MsgModeUnconfirmed(flightmode) == Res("str", "WARN_MODE_UNCONFIRMED", flightmode, 0, None)
ErrNoPosition == Res("dict", "error", None, 0, Some("NO_POSITION"))


\* ------------------------------------------------- Person (models/person.py)
\* Python values handed to Person(name, age): a str (its characters in s), an
\* int (n), a float with one decimal (n + f/10), or None.
PyStr(s) == [type |-> "str", s |-> s, n |-> 0, f |-> 0]
PyInt(n) == [type |-> "int", s |-> <<>>, n |-> n, f |-> 0]
PyFloat(n, f) == [type |-> "float", s |-> <<>>, n |-> n, f |-> f]
PyNone == [type |-> "NoneType", s |-> <<>>, n |-> 0, f |-> 0]

\* bool(x), which `not x` negates.
Truthy(x) ==
    CASE x.type = "str" -> Len(x.s) > 0
      [] x.type = "int" -> x.n # 0
      [] x.type = "float" -> x.n # 0 \/ x.f # 0
      [] OTHER -> FALSE

isinstance(x, t) == x.type = t

\* str.strip(): the string without its leading and trailing whitespace.
IsSpace(c) == c \in {" ", "\t", "\n"}
Strip(s) ==
    LET kept == {k \in 1..Len(s) : ~IsSpace(s[k])}
    IN  IF kept = {} THEN <<>>
        ELSE SubSeq(s, CHOOSE k \in kept : \A m \in kept : k <= m,
                       CHOOSE k \in kept : \A m \in kept : k >= m)

MaxNameLen == 100
MaxAge == 150

\* What a validation raises; NoError when it returns.
NoError == [type |-> "", msg |-> ""]
Raised(type, msg) == [type |-> type, msg |-> msg]

validate_name(name) ==
    IF ~Truthy(name) THEN Raised("ValueError", "NAME_REQUIRED")
    ELSE IF ~isinstance(name, "str") THEN Raised("TypeError", "NAME_NOT_STR")
    ELSE IF Len(Strip(name.s)) = 0 THEN Raised("ValueError", "NAME_BLANK")
    ELSE IF Len(name.s) > MaxNameLen THEN Raised("ValueError", "NAME_TOO_LONG")
    ELSE NoError

validate_age(age) ==
    IF ~isinstance(age, "int") THEN Raised("TypeError", "AGE_NOT_INT")
    ELSE IF age.n < 0 THEN Raised("ValueError", "AGE_NEGATIVE")
    ELSE IF age.n > MaxAge THEN Raised("ValueError", "AGE_TOO_LARGE")
    ELSE NoError

\* Arguments the constructor is called with.
Repeat(c, n) == [k \in 1..n |-> c]
Names ==
    { PyStr(<<>>), PyStr(Repeat(" ", 3)), PyStr(<<"a">>),
      PyStr(<<" ", "a", "b", " ">>),
      PyStr(Repeat("a", MaxNameLen)), PyStr(Repeat("a", MaxNameLen + 1)),
      PyStr(Repeat(" ", MaxNameLen + 1)),
      PyInt(123), PyInt(0), PyNone }
Ages ==
    { PyInt(0 - 1), PyInt(0), PyInt(30), PyInt(MaxAge), PyInt(MaxAge + 1),
      PyStr(<<"3", "0">>), PyFloat(30, 5), PyNone }

\* No Person is being constructed.
NoPerson == [pc |-> "none", name |-> PyNone, age |-> PyNone, error |-> NoError]

VARIABLES
    op,         \* op[i]: the operation invocation i runs, "idle" before the call
    arg,        \* arg[i]: its arguments
    pc,         \* pc[i]: where invocation i stands in the operation's body
    conn,       \* conn[i]: the local variable conn (a session id, 0 = unset)
    msg,        \* msg[i]: the local variable msg / position (None or a message)
    waited,     \* waited[i]: seconds spent in the current timed wait / poll loop
    polls,      \* polls[i]: flight modes seen by the polls of change_mode
    result,     \* result[i]: what the invocation returned or raised
    sessions,   \* sessions[s]: the connection objects
    vehArmed,   \* the vehicle: motors armed
    vehMode,    \* the vehicle: flight mode
    modeTable,  \* the vehicle: mode table
    person      \* the Person under construction (src/models/person.py)

vars == <<op, arg, pc, conn, msg, waited, polls, result, sessions,
          vehArmed, vehMode, modeTable, person>>

\* A connection object that mavlink_connection() has not created yet.
NoSession ==
    [state |-> "none", owner |-> 0, closes |-> 0, closedBy |-> {}, users |-> {},
     hb |-> None, armed |-> FALSE, flightmode |-> UNKNOWN,
     acks |-> <<>>, sent |-> <<>>, premature |-> FALSE]

Init ==
    /\ op = [i \in Invocations |-> "idle"]
    /\ arg = [i \in Invocations |-> [alt |-> 0, mode |-> None]]
    /\ pc = [i \in Invocations |-> "idle"]
    /\ conn = [i \in Invocations |-> 0]
    /\ msg = [i \in Invocations |-> None]
    /\ waited = [i \in Invocations |-> 0]
    /\ polls = [i \in Invocations |-> {}]
    /\ result = [i \in Invocations |-> NoResult]
    /\ sessions = [s \in SessionIds |-> NoSession]
    /\ vehArmed \in BOOLEAN
    /\ modeTable \in ModeTables
    /\ vehMode \in DOMAIN modeTable
    /\ person = NoPerson

\* ------------------------------------------------------------- the vehicle
\* HEARTBEAT as the vehicle sends it in its present state.
Heartbeat ==
    [system_status |-> IF vehArmed THEN MAV_STATE_ACTIVE ELSE MAV_STATE_STANDBY,
     armed |-> vehArmed, mode |-> vehMode]

\* GLOBAL_POSITION_INT messages the vehicle may send (raw integer fields).
PosSamples ==
    { [lat |-> 123456780, lon |-> 1398765432, alt |-> 10000, relative_alt |-> 2500,
       hdg |-> 9000, vx |-> 0, vy |-> 0, vz |-> 0],
      [lat |-> 0 - 353632610, lon |-> 1491652300, alt |-> 584090, relative_alt |-> 0,
       hdg |-> 35999, vx |-> 12, vy |-> 0 - 7, vz |-> 3] }

\* What the vehicle may do with a command: accept it (and acknowledge),
\* deny it (and acknowledge), or never answer (datagram lost).
Reactions(cmd) ==
    IF cmd.name = "SET_MODE" /\ (cmd.param = None \/ \A n \in DOMAIN modeTable : Some(modeTable[n]) # cmd.param)
    THEN {"deny", "lost"}
    ELSE {"accept", "deny", "lost"}

ArmedAfter(cmd, r) ==
    IF r = "accept" /\ cmd.name = "ARM" THEN TRUE
    ELSE IF r = "accept" /\ cmd.name = "DISARM" THEN FALSE
    ELSE vehArmed

ModeAfter(cmd, r) ==
    IF r = "accept" /\ cmd.name = "SET_MODE"
    THEN CHOOSE n \in DOMAIN modeTable : Some(modeTable[n]) = cmd.param
    ELSE vehMode

AcksAfter(acks, cmd, r) ==
    CASE r = "accept" -> Append(acks, [command |-> cmd.name, result |-> MAV_RESULT_ACCEPTED])
      [] r = "deny" -> Append(acks, [command |-> cmd.name, result |-> MAV_RESULT_FAILED])
      [] OTHER -> acks

\* ---------------------------------------------------- the connection object
Cmd(name, param) == [name |-> name, param |-> param]

\* A library call on session s by invocation i that reads the cached vehicle
\* state (or the target ids) of the connection.
Touch(sess, i) ==
    [sess EXCEPT !.users = @ \cup {i},
                 !.premature = @ \/ sess.hb = None]

\* recv of one HEARTBEAT: the cache takes the vehicle's state; the k
\* acknowledgements that were queued before the heartbeat are read and dropped.
OnHeartbeat(sess, i, k) ==
    [sess EXCEPT !.users = @ \cup {i},
                 !.hb = Some(Heartbeat),
                 !.armed = vehArmed,
                 !.flightmode = vehMode,
                 !.acks = SubSeq(@, k + 1, Len(@))]

\* Sending one command to target_system / target_component.
OnSend(sess, i, cmd, r) ==
    [Touch(sess, i) EXCEPT !.sent = Append(@, cmd),
                           !.acks = AcksAfter(@, cmd, r)]

Send(i, cmd, next) ==
    \E r \in Reactions(cmd) :
        /\ sessions' = [sessions EXCEPT ![conn[i]] = OnSend(@, i, cmd, r)]
        /\ vehArmed' = ArmedAfter(cmd, r)
        /\ vehMode' = ModeAfter(cmd, r)
        /\ pc' = [pc EXCEPT ![i] = next]

\* ------------------------------------------------------------ invocations
\* The external caller invokes a tool.
Call(i, o, a) ==
    /\ pc[i] = "idle"
    /\ op' = [op EXCEPT ![i] = o]
    /\ arg' = [arg EXCEPT ![i] = a]
    /\ pc' = [pc EXCEPT ![i] = "connect"]
    /\ UNCHANGED <<person, conn, msg, waited, polls, result, sessions, vehArmed, vehMode, modeTable>>

\* A connection object kept at module level and handed to every caller.
SharedConnection(i) == 1

\* mavutil.mavlink_connection(...) builds a new connection object in every
\* call; the object built for invocation i is named i.
NewConnection(i) == i

\* connect_to_ardupilot() returns the connection without waiting for a heartbeat.
Connect(i) ==
    /\ pc[i] = "connect"
    /\ LET s == NewConnection(i) IN
        /\ sessions' = [sessions EXCEPT ![s] =
               IF @.state = "none"
               THEN [@ EXCEPT !.state = "open", !.owner = i, !.users = {i}]
               ELSE [@ EXCEPT !.users = @ \cup {i}]]
        /\ conn' = [conn EXCEPT ![i] = s]
    /\ pc' = [pc EXCEPT ![i] = "wait_heartbeat"]
    /\ waited' = [waited EXCEPT ![i] = 0]
    /\ UNCHANGED <<person, op, arg, msg, polls, result, vehArmed, vehMode, modeTable>>

\* mavlink_connection raised: the except block prints hints and re-raises;
\* the caller has no try around connect_to_ardupilot().
ConnectFail(i) ==
    /\ pc[i] = "connect"
    /\ result' = [result EXCEPT ![i] = Exc("ConnectError")]
    /\ pc' = [pc EXCEPT ![i] = "done"]
    /\ UNCHANGED <<person, op, arg, conn, msg, waited, polls, sessions, vehArmed, vehMode, modeTable>>

\* Every operation passes timeout=10 to wait_heartbeat.
HeartbeatTimeoutEverywhere(o) == LivenessTimeout

\* The timeout argument of the operation's wait_heartbeat call.
HeartbeatTimeout(o) ==
    IF o \in {"arm", "takeoff"} THEN LivenessTimeout ELSE NoTimeout

\* The statement after the heartbeat wait.
AfterHeartbeat(o) ==
    CASE o = "arm" -> "arm_send"
      [] o = "disarm" -> "disarm_send"
      [] o = "takeoff" -> "check_mode"
      [] o = "change_mode" -> "lookup"
      [] o = "get_status" -> "read_status"
      [] o = "get_position" -> "recv_position"

\* The timeout of the wait the invocation stands in (NoTimeout: none given).
WaitBudget(i) ==
    CASE pc[i] = "wait_heartbeat" -> HeartbeatTimeout(op[i])
      [] pc[i] = "ack_wait" -> AckTimeout
      [] pc[i] = "recv_position" -> PositionTimeout
      [] pc[i] = "poll" -> ModeConfirmWindow
      [] OTHER -> NoTimeout

WaitPcs == {"wait_heartbeat", "armed_wait", "disarmed_wait", "ack_wait",
            "recv_position", "poll"}

\* A message may still arrive in the wait of invocation i.
InTime(i) == WaitBudget(i) = NoTimeout \/ waited[i] < WaitBudget(i)
\* The wait of invocation i has used up its timeout.
Expired(i) == WaitBudget(i) # NoTimeout /\ waited[i] >= WaitBudget(i)

\* Time passes while invocation i blocks in a receive call with a timeout.
Tick(i) ==
    /\ pc[i] \in {"wait_heartbeat", "ack_wait", "recv_position"}
    /\ WaitBudget(i) # NoTimeout
    /\ waited[i] < WaitBudget(i)
    /\ waited' = [waited EXCEPT ![i] = @ + TickStep]
    /\ UNCHANGED <<person, op, arg, pc, conn, msg, polls, result, sessions, vehArmed, vehMode, modeTable>>

\* conn.wait_heartbeat(...) returns a heartbeat.
WaitHeartbeat(i) ==
    /\ pc[i] = "wait_heartbeat"
    /\ InTime(i)
    /\ \E k \in 0..Len(sessions[conn[i]].acks) :
           sessions' = [sessions EXCEPT ![conn[i]] = OnHeartbeat(@, i, k)]
    /\ pc' = [pc EXCEPT ![i] = AfterHeartbeat(op[i])]
    /\ waited' = [waited EXCEPT ![i] = 0]
    /\ UNCHANGED <<person, op, arg, conn, msg, polls, result, vehArmed, vehMode, modeTable>>

\* The None of wait_heartbeat is not tested: the operation goes on.
HeartbeatTimeoutIgnored(i) ==
    /\ pc[i] = "wait_heartbeat"
    /\ Expired(i)
    /\ sessions' = [sessions EXCEPT ![conn[i]].users = @ \cup {i}]
    /\ pc' = [pc EXCEPT ![i] = AfterHeartbeat(op[i])]
    /\ waited' = [waited EXCEPT ![i] = 0]
    /\ UNCHANGED <<person, op, arg, conn, msg, polls, result, vehArmed, vehMode, modeTable>>

\* conn.wait_heartbeat(timeout=...) returns None.  arm and takeoff test the
\* value and return the error string; the others drop it.
HeartbeatTimedOut(i) ==
    /\ pc[i] = "wait_heartbeat"
    /\ Expired(i)
    /\ sessions' = [sessions EXCEPT ![conn[i]].users = @ \cup {i}]
    /\ IF op[i] \in {"arm", "takeoff"}
       THEN /\ result' = [result EXCEPT ![i] = MsgConnTimeout]
            /\ pc' = [pc EXCEPT ![i] = "finally"]
            /\ waited' = waited
       ELSE /\ result' = result
            /\ pc' = [pc EXCEPT ![i] = AfterHeartbeat(op[i])]
            /\ waited' = [waited EXCEPT ![i] = 0]
    /\ UNCHANGED <<person, op, arg, conn, msg, polls, vehArmed, vehMode, modeTable>>

\* Statements of the try blocks that call into the library and may raise.
RaisingPcs == {"wait_heartbeat", "arm_send", "armed_wait", "disarm_send",
               "disarmed_wait", "check_mode", "takeoff_send", "ack_wait",
               "lookup", "set_mode", "read_status", "recv_position"}

\* What an exception raised inside the try block turns into: arm has an
\* except clause that returns a string; the others have only finally.
OnException(o) == IF o = "arm" THEN MsgArmError ELSE Exc("Exception")

\* The exception leaves the operation without the finally block.
RaiseSkipsFinally(i) ==
    /\ pc[i] \in RaisingPcs
    /\ result' = [result EXCEPT ![i] = OnException(op[i])]
    /\ pc' = [pc EXCEPT ![i] = "done"]
    /\ UNCHANGED <<person, op, arg, conn, msg, waited, polls, sessions, vehArmed, vehMode, modeTable>>

\* A library call inside the try block raises; control goes to finally.
Raise(i) ==
    /\ pc[i] \in RaisingPcs
    /\ result' = [result EXCEPT ![i] = OnException(op[i])]
    /\ pc' = [pc EXCEPT ![i] = "finally"]
    /\ sessions' = [sessions EXCEPT ![conn[i]].users = @ \cup {i}]
    /\ UNCHANGED <<person, op, arg, conn, msg, waited, polls, vehArmed, vehMode, modeTable>>

\* finally: conn.close(); then the value is returned or the exception goes on.
Finally(i) ==
    /\ pc[i] = "finally"
    /\ sessions' = [sessions EXCEPT ![conn[i]] =
           [@ EXCEPT !.state = "closed", !.closes = @ + 1, !.acks = <<>>,
                     !.closedBy = @ \cup {i}, !.users = @ \cup {i}]]
    /\ pc' = [pc EXCEPT ![i] = "done"]
    /\ UNCHANGED <<person, op, arg, conn, msg, waited, polls, result, vehArmed, vehMode, modeTable>>

\* ----------------------------------------------------------- arm / disarm
\* conn.arducopter_arm()
ArmSend(i) ==
    /\ pc[i] = "arm_send"
    /\ Send(i, Cmd("ARM", Some(1)), "armed_wait")
    /\ UNCHANGED <<person, op, arg, conn, msg, waited, polls, result, modeTable>>


\* The wait returns with the first heartbeat, whatever it reports.
MotorsArmedWaitAnyHeartbeat(i) ==
    /\ pc[i] = "armed_wait"
    /\ \E k \in 0..Len(sessions[conn[i]].acks) :
           sessions' = [sessions EXCEPT ![conn[i]] = OnHeartbeat(@, i, k)]
    /\ IF op[i] = "arm"
       THEN /\ result' = [result EXCEPT ![i] = MsgArmed]
            /\ pc' = [pc EXCEPT ![i] = "finally"]
       ELSE /\ result' = result
            /\ pc' = [pc EXCEPT ![i] = "takeoff_send"]
    /\ UNCHANGED <<person, op, arg, conn, msg, waited, polls, vehArmed, vehMode, modeTable>>

\* conn.motors_armed_wait(): reads heartbeats, without a timeout, until one
\* reports the motors armed.
MotorsArmedWait(i) ==
    /\ pc[i] = "armed_wait"
    /\ \E k \in 0..Len(sessions[conn[i]].acks) :
           sessions' = [sessions EXCEPT ![conn[i]] = OnHeartbeat(@, i, k)]
    /\ IF vehArmed
       THEN IF op[i] = "arm"
            THEN /\ result' = [result EXCEPT ![i] = MsgArmed]
                 /\ pc' = [pc EXCEPT ![i] = "finally"]
            ELSE /\ result' = result
                 /\ pc' = [pc EXCEPT ![i] = "takeoff_send"]
       ELSE UNCHANGED <<result, pc>>
    /\ UNCHANGED <<person, op, arg, conn, msg, waited, polls, vehArmed, vehMode, modeTable>>

\* conn.arducopter_disarm()
DisarmSend(i) ==
    /\ pc[i] = "disarm_send"
    /\ Send(i, Cmd("DISARM", Some(0)), "disarmed_wait")
    /\ UNCHANGED <<person, op, arg, conn, msg, waited, polls, result, modeTable>>

\* disarm waits with motors_armed_wait(): it returns when a heartbeat
\* reports the motors armed.
MotorsDisarmedWaitForArmed(i) ==
    /\ pc[i] = "disarmed_wait"
    /\ \E k \in 0..Len(sessions[conn[i]].acks) :
           sessions' = [sessions EXCEPT ![conn[i]] = OnHeartbeat(@, i, k)]
    /\ IF vehArmed
       THEN /\ result' = [result EXCEPT ![i] = MsgDisarmed]
            /\ pc' = [pc EXCEPT ![i] = "finally"]
       ELSE UNCHANGED <<result, pc>>
    /\ UNCHANGED <<person, op, arg, conn, msg, waited, polls, vehArmed, vehMode, modeTable>>

\* conn.motors_disarmed_wait(): reads heartbeats, without a timeout, until
\* one reports the motors disarmed.
MotorsDisarmedWait(i) ==
    /\ pc[i] = "disarmed_wait"
    /\ \E k \in 0..Len(sessions[conn[i]].acks) :
           sessions' = [sessions EXCEPT ![conn[i]] = OnHeartbeat(@, i, k)]
    /\ IF ~vehArmed
       THEN /\ result' = [result EXCEPT ![i] = MsgDisarmed]
            /\ pc' = [pc EXCEPT ![i] = "finally"]
       ELSE UNCHANGED <<result, pc>>
    /\ UNCHANGED <<person, op, arg, conn, msg, waited, polls, vehArmed, vehMode, modeTable>>

\* ------------------------------------------------------------------ takeoff

\* takeoff with the guard of change_mode: a missing table entry for GUIDED is
\* answered with the invalid-mode message and nothing is sent.
TakeoffSetGuidedChecked(i) ==
    /\ pc[i] = "check_mode"
    /\ IF sessions[conn[i]].flightmode # GUIDED
       THEN IF Get(modeTable, GUIDED) = None
            THEN /\ result' = [result EXCEPT ![i] = MsgInvalidMode(GUIDED)]
                 /\ sessions' = [sessions EXCEPT ![conn[i]] = Touch(@, i)]
                 /\ pc' = [pc EXCEPT ![i] = "finally"]
                 /\ UNCHANGED <<vehArmed, vehMode>>
            ELSE /\ Send(i, Cmd("SET_MODE", Get(modeTable, GUIDED)), "arm_send")
                 /\ result' = result
       ELSE /\ sessions' = [sessions EXCEPT ![conn[i]] = Touch(@, i)]
            /\ pc' = [pc EXCEPT ![i] = "arm_send"]
            /\ UNCHANGED <<result, vehArmed, vehMode>>
    /\ UNCHANGED <<person, op, arg, conn, msg, waited, polls, modeTable>>

\* current_mode = conn.flightmode; if it is not GUIDED:
\* conn.set_mode(conn.mode_mapping().get("GUIDED")); time.sleep(1)
TakeoffSetGuided(i) ==
    /\ pc[i] = "check_mode"
    /\ IF sessions[conn[i]].flightmode # GUIDED
       THEN Send(i, Cmd("SET_MODE", Get(modeTable, GUIDED)), "arm_send")
       ELSE /\ sessions' = [sessions EXCEPT ![conn[i]] = Touch(@, i)]
            /\ pc' = [pc EXCEPT ![i] = "arm_send"]
            /\ UNCHANGED <<vehArmed, vehMode>>
    /\ UNCHANGED <<person, op, arg, conn, msg, waited, polls, result, modeTable>>

\* time.sleep(1); conn.mav.command_long_send(..., MAV_CMD_NAV_TAKEOFF, ..., altitude)
TakeoffSend(i) ==
    /\ pc[i] = "takeoff_send"
    /\ Send(i, Cmd("TAKEOFF", Some(arg[i].alt)), "ack_wait")
    /\ waited' = [waited EXCEPT ![i] = 0]
    /\ UNCHANGED <<person, op, arg, conn, msg, polls, result, modeTable>>

\* Only "if not msg" is tested: any acknowledgement counts as success.
TakeoffResultAnyAck(m, altitude) ==
    IF m = None THEN MsgTakeoffRejected ELSE MsgTakeoffStarted(altitude)

\* if not msg or msg.result != MAV_RESULT_ACCEPTED: rejected; else started.
TakeoffResult(m, altitude) ==
    IF m = None \/ m[1].result # MAV_RESULT_ACCEPTED
    THEN MsgTakeoffRejected
    ELSE MsgTakeoffStarted(altitude)

\* msg = conn.recv_match(type='COMMAND_ACK', blocking=True, timeout=10)
\* returns the next COMMAND_ACK in the connection's queue.
AckWait(i) ==
    /\ pc[i] = "ack_wait"
    /\ InTime(i)
    /\ sessions[conn[i]].acks # <<>>
    /\ LET m == Some(Head(sessions[conn[i]].acks)) IN
        /\ msg' = [msg EXCEPT ![i] = m]
        /\ result' = [result EXCEPT ![i] = TakeoffResult(m, arg[i].alt)]
    /\ sessions' = [sessions EXCEPT ![conn[i]] =
           [@ EXCEPT !.acks = Tail(@), !.users = @ \cup {i}]]
    /\ pc' = [pc EXCEPT ![i] = "finally"]
    /\ UNCHANGED <<person, op, arg, conn, waited, polls, vehArmed, vehMode, modeTable>>



\* A missing acknowledgement makes takeoff disarm the vehicle before it
\* returns the rejection.
AckTimedOutRollsBack(i) ==
    /\ pc[i] = "ack_wait"
    /\ Expired(i)
    /\ msg' = [msg EXCEPT ![i] = None]
    /\ result' = [result EXCEPT ![i] = MsgTakeoffRejected]
    /\ Send(i, Cmd("DISARM", Some(0)), "finally")
    /\ UNCHANGED <<person, op, arg, conn, waited, polls, modeTable>>

\* A missing acknowledgement makes takeoff send the command again.
AckTimedOutRetries(i) ==
    /\ pc[i] = "ack_wait"
    /\ Expired(i)
    /\ msg' = [msg EXCEPT ![i] = None]
    /\ sessions' = [sessions EXCEPT ![conn[i]].users = @ \cup {i}]
    /\ pc' = [pc EXCEPT ![i] = "takeoff_send"]
    /\ UNCHANGED <<person, op, arg, conn, waited, polls, result, vehArmed, vehMode, modeTable>>

\* The recv_match for COMMAND_ACK returns None after its timeout.
AckTimedOut(i) ==
    /\ pc[i] = "ack_wait"
    /\ Expired(i)
    /\ msg' = [msg EXCEPT ![i] = None]
    /\ result' = [result EXCEPT ![i] = TakeoffResult(None, arg[i].alt)]
    /\ sessions' = [sessions EXCEPT ![conn[i]].users = @ \cup {i}]
    /\ pc' = [pc EXCEPT ![i] = "finally"]
    /\ UNCHANGED <<person, op, arg, conn, waited, polls, vehArmed, vehMode, modeTable>>

\* -------------------------------------------------------------- change_mode
\* The lookup without .upper().
ModeIdAsGiven(table, mode) == Get(table, mode)

\* mode_id = conn.mode_mapping().get(mode.upper())
ModeId(table, mode) == Get(table, Upper(mode))

\* The lookup result is not tested: set_mode is called with whatever it is.
ChangeModeLookupUnchecked(i) ==
    /\ pc[i] = "lookup"
    /\ sessions' = [sessions EXCEPT ![conn[i]] = Touch(@, i)]
    /\ pc' = [pc EXCEPT ![i] = "set_mode"]
    /\ UNCHANGED <<person, op, arg, conn, msg, waited, polls, result, vehArmed, vehMode, modeTable>>

\* if mode_id is None: return the invalid-mode message
ChangeModeLookup(i) ==
    /\ pc[i] = "lookup"
    /\ sessions' = [sessions EXCEPT ![conn[i]] = Touch(@, i)]
    /\ IF ModeId(modeTable, arg[i].mode) = None
       THEN /\ result' = [result EXCEPT ![i] = MsgInvalidMode(arg[i].mode)]
            /\ pc' = [pc EXCEPT ![i] = "finally"]
       ELSE /\ result' = result
            /\ pc' = [pc EXCEPT ![i] = "set_mode"]
    /\ UNCHANGED <<person, op, arg, conn, msg, waited, polls, vehArmed, vehMode, modeTable>>

\* conn.set_mode(mode_id); start_time = time.time()
ChangeModeSend(i) ==
    /\ pc[i] = "set_mode"
    /\ Send(i, Cmd("SET_MODE", ModeId(modeTable, arg[i].mode)), "poll")
    /\ waited' = [waited EXCEPT ![i] = 0]
    /\ UNCHANGED <<person, op, arg, conn, msg, polls, result, modeTable>>

\* One turn of: while time.time() - start_time < 5:
\*     if conn.flightmode == mode.upper(): return success
\*     time.sleep(0.1)
\* The sleep moves the clock (read in whole TickSteps) on or not.
PollMode(i) ==
    /\ pc[i] = "poll"
    /\ IF waited[i] < ModeConfirmWindow
       THEN LET seen == sessions[conn[i]].flightmode IN
            /\ polls' = [polls EXCEPT ![i] = @ \cup {seen}]
            /\ IF seen = Upper(arg[i].mode)
               THEN /\ result' = [result EXCEPT ![i] = MsgModeChanged(arg[i].mode)]
                    /\ pc' = [pc EXCEPT ![i] = "finally"]
                    /\ waited' = waited
               ELSE /\ \E d \in {0, TickStep} : waited' = [waited EXCEPT ![i] = @ + d]
                    /\ UNCHANGED <<result, pc>>
       ELSE /\ pc' = [pc EXCEPT ![i] = "warn"]
            /\ UNCHANGED <<polls, result, waited>>
    /\ sessions' = [sessions EXCEPT ![conn[i]] = Touch(@, i)]
    /\ UNCHANGED <<person, op, arg, conn, msg, vehArmed, vehMode, modeTable>>

\* return the warning with conn.flightmode as it is after the loop
ChangeModeWarn(i) ==
    /\ pc[i] = "warn"
    /\ result' = [result EXCEPT ![i] = MsgModeUnconfirmed(sessions[conn[i]].flightmode)]
    /\ sessions' = [sessions EXCEPT ![conn[i]] = Touch(@, i)]
    /\ pc' = [pc EXCEPT ![i] = "finally"]
    /\ UNCHANGED <<person, op, arg, conn, msg, waited, polls, vehArmed, vehMode, modeTable>>

\* While change_mode sleeps, the connection may take in a heartbeat and
\* refresh conn.flightmode (a transport with its own reader does; one that
\* reads only inside receive calls never takes this step).
CacheRefresh(i) ==
    /\ pc[i] \in {"poll", "warn"}
    /\ sessions[conn[i]].flightmode # vehMode \/ sessions[conn[i]].armed # vehArmed
    /\ sessions' = [sessions EXCEPT ![conn[i]] = OnHeartbeat(@, i, 0)]
    /\ UNCHANGED <<person, op, arg, pc, conn, msg, waited, polls, result, vehArmed, vehMode, modeTable>>

\* ------------------------------------------------- get_status / get_position

\* heartbeat.system_status read without the test for a missing heartbeat:
\* None has no such attribute.
StatusRecordUnguarded(sess) ==
    IF sess.hb = None THEN Exc("AttributeError")
    ELSE Res("dict", "status", sess.flightmode, 0,
             Some([armed |-> sess.armed,
                   system_status |-> Some(sess.hb[1].system_status)]))

\* heartbeat = conn.messages.get('HEARTBEAT'); the returned dict
StatusRecord(sess) ==
    Res("dict", "status", sess.flightmode, 0,
        Some([armed |-> sess.armed,
              system_status |-> IF sess.hb # None THEN Some(sess.hb[1].system_status)
                                ELSE None]))

GetStatusRead(i) ==
    /\ pc[i] = "read_status"
    /\ result' = [result EXCEPT ![i] = StatusRecord(sessions[conn[i]])]
    /\ sessions' = [sessions EXCEPT ![conn[i]] = Touch(@, i)]
    /\ pc' = [pc EXCEPT ![i] = "finally"]
    /\ UNCHANGED <<person, op, arg, conn, msg, waited, polls, vehArmed, vehMode, modeTable>>


\* The reads of get_status as a function of what the connection has cached:
\* either nothing (conn.messages has no 'HEARTBEAT', the armed flag and the
\* flight mode have their initial values) or the state one heartbeat carried.
StatusCaches ==
    {[NoSession EXCEPT !.state = "open"]} \cup
    {[NoSession EXCEPT !.state = "open",
                       !.hb = Some([system_status |-> IF a THEN MAV_STATE_ACTIVE
                                                      ELSE MAV_STATE_STANDBY,
                                    armed |-> a, mode |-> m]),
                       !.armed = a,
                       !.flightmode = m] :
         a \in BOOLEAN, m \in DOMAIN modeTable}

\* raw / d as whole part and remainder: the value is q + r/d, 0 <= r < d.
Scaled(raw, d) == [q |-> raw \div d, r |-> raw % d, d |-> d]


\* The dict with the heading left in centidegrees.
PositionRecordRawHeading(p) ==
    Res("dict", "position", None, 0,
        Some([latitude |-> Scaled(p.lat, 10000000),
              longitude |-> Scaled(p.lon, 10000000),
              altitude |-> Scaled(p.alt, 1000),
              relative_alt |-> Scaled(p.relative_alt, 1000),
              heading |-> Scaled(p.hdg, 1),
              velocity |-> [x |-> p.vx, y |-> p.vy, z |-> p.vz]]))

\* The dict built from a GLOBAL_POSITION_INT message.
PositionRecord(p) ==
    Res("dict", "position", None, 0,
        Some([latitude |-> Scaled(p.lat, 10000000),
              longitude |-> Scaled(p.lon, 10000000),
              altitude |-> Scaled(p.alt, 1000),
              relative_alt |-> Scaled(p.relative_alt, 1000),
              heading |-> Scaled(p.hdg, 100),
              velocity |-> [x |-> p.vx, y |-> p.vy, z |-> p.vz]]))

\* position = conn.recv_match(type='GLOBAL_POSITION_INT', blocking=True, timeout=5)
PositionWait(i) ==
    /\ pc[i] = "recv_position"
    /\ InTime(i)
    /\ \E p \in PosSamples :
        /\ msg' = [msg EXCEPT ![i] = Some(p)]
        /\ result' = [result EXCEPT ![i] = PositionRecord(p)]
    /\ sessions' = [sessions EXCEPT ![conn[i]].users = @ \cup {i}]
    /\ pc' = [pc EXCEPT ![i] = "finally"]
    /\ UNCHANGED <<person, op, arg, conn, waited, polls, vehArmed, vehMode, modeTable>>


\* The record is built without testing whether a message came: reading a
\* field of None raises AttributeError.
PositionTimedOutUnchecked(i) ==
    /\ pc[i] = "recv_position"
    /\ Expired(i)
    /\ msg' = [msg EXCEPT ![i] = None]
    /\ result' = [result EXCEPT ![i] = Exc("AttributeError")]
    /\ sessions' = [sessions EXCEPT ![conn[i]].users = @ \cup {i}]
    /\ pc' = [pc EXCEPT ![i] = "finally"]
    /\ UNCHANGED <<person, op, arg, conn, waited, polls, vehArmed, vehMode, modeTable>>

\* No GLOBAL_POSITION_INT within the timeout: return {"error": ...}
PositionTimedOut(i) ==
    /\ pc[i] = "recv_position"
    /\ Expired(i)
    /\ msg' = [msg EXCEPT ![i] = None]
    /\ result' = [result EXCEPT ![i] = ErrNoPosition]
    /\ sessions' = [sessions EXCEPT ![conn[i]].users = @ \cup {i}]
    /\ pc' = [pc EXCEPT ![i] = "finally"]
    /\ UNCHANGED <<person, op, arg, conn, waited, polls, vehArmed, vehMode, modeTable>>

\* The value (or the exception) reaches the caller: the frame of the
\* invocation and its connection object are gone, the tool can be called again.
Return(i) ==
    /\ pc[i] = "done"
    /\ op' = [op EXCEPT ![i] = "idle"]
    /\ arg' = [arg EXCEPT ![i] = [alt |-> 0, mode |-> None]]
    /\ pc' = [pc EXCEPT ![i] = "idle"]
    /\ conn' = [conn EXCEPT ![i] = 0]
    /\ msg' = [msg EXCEPT ![i] = None]
    /\ waited' = [waited EXCEPT ![i] = 0]
    /\ polls' = [polls EXCEPT ![i] = {}]
    /\ result' = [result EXCEPT ![i] = NoResult]
    /\ sessions' = [s \in SessionIds |->
           IF s = conn[i] /\ sessions[s].owner = i THEN NoSession ELSE sessions[s]]
    /\ UNCHANGED <<person, vehArmed, vehMode, modeTable>>

\* No invocation is between its call and its return.
Quiet == \A j \in Invocations : pc[j] = "idle"

\* ------------------------------------------------------------ specification
\* One step of invocation i after its call in which no library call raises.
Proceed(i) ==
        \/ Connect(i)
        \/ ConnectFail(i)
        \/ Tick(i)
        \/ WaitHeartbeat(i)
        \/ HeartbeatTimedOut(i)
        \/ Finally(i)
        \/ ArmSend(i)
        \/ MotorsArmedWait(i)
        \/ DisarmSend(i)
        \/ MotorsDisarmedWait(i)
        \/ TakeoffSetGuided(i)
        \/ TakeoffSend(i)
        \/ AckWait(i)
        \/ AckTimedOut(i)
        \/ ChangeModeLookup(i)
        \/ ChangeModeSend(i)
        \/ PollMode(i)
        \/ ChangeModeWarn(i)
        \/ CacheRefresh(i)
        \/ GetStatusRead(i)
        \/ PositionWait(i)
        \/ PositionTimedOut(i)
        \/ Return(i)

\* One step of invocation i after its call.
Step(i) == Proceed(i) \/ Raise(i)

\* The caller invokes the tools one at a time.
Next ==
    \E i \in Invocations :
        \/ Quiet /\ \E o \in Ops : \E a \in ArgsOf(o) : Call(i, o, a)
        \/ Step(i)

Spec == Init /\ [][Next]_vars

\* The caller invokes tools while others are still running.  The concurrent
\* runs start with the vehicle disarmed in STABILIZE, a mode table that has
\* GUIDED, and use one takeoff altitude.
ConcArgsOf(o) == {a \in ArgsOf(o) : a.alt \in {0, 15}}

ConcInit == Init /\ ~vehArmed /\ vehMode = STABILIZE /\ GUIDED \in DOMAIN modeTable

NextConc ==
    \E i \in Invocations :
        \/ \E o \in Ops : \E a \in ConcArgsOf(o) : Call(i, o, a)
        \/ Step(i)

ConcSpec == ConcInit /\ [][NextConc]_vars

\* Every other invocation is idle, or is a disarm whose answer the caller
\* still holds.
DisarmKept == \A j \in Invocations :
    pc[j] = "idle" \/ (pc[j] = "done" /\ op[j] = "disarm")

\* The caller invokes the tools one at a time and may keep the answer of a
\* disarm while it calls again.
NextRepeat ==
    \E i \in Invocations :
        \/ DisarmKept /\ \E o \in Ops : \E a \in ArgsOf(o) : Call(i, o, a)
        \/ Step(i)

RepeatSpec == Init /\ [][NextRepeat]_vars


\* ------------------------------------------------------ constructing Persons
\* Person(name, age): the generated __init__ stores the fields and calls
\* __post_init__.
Construct(name, age) ==
    /\ person.pc = "none"
    /\ person' = [pc |-> "validate_name", name |-> name, age |-> age,
                  error |-> NoError]
    /\ UNCHANGED <<op, arg, pc, conn, msg, waited, polls, result, sessions,
                   vehArmed, vehMode, modeTable>>

\* self._validate_name()
PostInitName ==
    /\ person.pc = "validate_name"
    /\ LET e == validate_name(person.name) IN
           person' = IF e = NoError THEN [person EXCEPT !.pc = "validate_age"]
                     ELSE [person EXCEPT !.pc = "raised", !.error = e]
    /\ UNCHANGED <<op, arg, pc, conn, msg, waited, polls, result, sessions,
                   vehArmed, vehMode, modeTable>>

\* self._validate_age()
PostInitAge ==
    /\ person.pc = "validate_age"
    /\ LET e == validate_age(person.age) IN
           person' = IF e = NoError THEN [person EXCEPT !.pc = "constructed"]
                     ELSE [person EXCEPT !.pc = "raised", !.error = e]
    /\ UNCHANGED <<op, arg, pc, conn, msg, waited, polls, result, sessions,
                   vehArmed, vehMode, modeTable>>

PersonNext ==
    \/ \E name \in Names : \E age \in Ages : Construct(name, age)
    \/ PostInitName
    \/ PostInitAge

PersonSpec == Init /\ [][PersonNext]_vars

\* Every invocation is a get_status about to read a cache drawn from
\* StatusCaches.
StatusInit ==
    /\ vehArmed \in BOOLEAN
    /\ modeTable \in ModeTables
    /\ vehMode \in DOMAIN modeTable
    /\ op = [i \in Invocations |-> "get_status"]
    /\ arg = [i \in Invocations |-> [alt |-> 0, mode |-> None]]
    /\ pc = [i \in Invocations |-> "read_status"]
    /\ conn = [i \in Invocations |-> NewConnection(i)]
    /\ msg = [i \in Invocations |-> None]
    /\ waited = [i \in Invocations |-> 0]
    /\ polls = [i \in Invocations |-> {}]
    /\ result = [i \in Invocations |-> NoResult]
    /\ \E c \in [SessionIds -> StatusCaches] :
           sessions = [s \in SessionIds |-> [c[s] EXCEPT !.owner = s]]
    /\ person = NoPerson

StatusNext ==
    \E i \in Invocations :
        \/ GetStatusRead(i)
        \/ Finally(i)
        \/ Return(i)

StatusSpec == StatusInit /\ [][StatusNext]_vars

\* ------------------------------------------------------------------ claims
\* The connection object of invocation i.
Sess(i) == sessions[conn[i]]
\* Invocation i has opened a connection.
Opened(i) == conn[i] # 0
\* Invocation i has left the try block (it is in finally or past it).
Left(i) == pc[i] \in {"finally", "done"}
\* Invocation i sent the command named n.
SentNames(i) == {Sess(i).sent[k].name : k \in 1..Len(Sess(i).sent)}

\* C1: on every exit path of every operation (normal return, early return,
\* exception after the connection was opened) the connection opened by the
\* invocation is closed exactly once, and before the invocation returns or
\* propagates: never closed while the body runs, closed once when it is done.
C1_ReleasedExactlyOnce ==
    \A i \in Invocations : Opened(i) =>
        /\ Sess(i).closes <= 1
        /\ (pc[i] = "done" => Sess(i).closes = 1 /\ Sess(i).state = "closed")
        /\ (pc[i] # "done" => Sess(i).closes = 0 /\ Sess(i).state = "open")

\* An exception raised after the heartbeat leaves an operation that has no
\* except clause, and the connection is closed.
C1_Witness ==
    \E i \in Invocations :
        /\ pc[i] = "done" /\ Opened(i)
        /\ result[i].kind = "exception"
        /\ Sess(i).hb # None
        /\ Sess(i).closes = 1

\* C2: every failure ends with the operation returning a string or a record;
\* no operation lets an exception out.
C2_NoExceptionEscapes ==
    \A i \in Invocations : pc[i] = "done" => result[i].kind \in {"str", "dict"}

\* C3: every wait of arm, takeoff, change_mode, get_status and get_position
\* has an explicit timeout; only disarm's waits can block for ever.
C3_WaitsBounded ==
    \A i \in Invocations :
        op[i] \in Ops \ {"disarm"} /\ pc[i] \in WaitPcs => WaitBudget(i) # NoTimeout

\* C4: in arm and takeoff, when no heartbeat was seen within the 10 s of the
\* liveness wait, the operation returns the connection-timeout string and
\* has sent no command; the timeout string is returned in no other case.
C4_LivenessTimeoutSendsNothing ==
    \A i \in Invocations : Opened(i) /\ op[i] \in {"arm", "takeoff"} =>
        /\ Sess(i).hb = None => Sess(i).sent = <<>>
        /\ (Left(i) /\ Sess(i).hb = None /\ result[i] # OnException(op[i]))
               => result[i] = MsgConnTimeout
        /\ result[i] = MsgConnTimeout =>
               /\ Sess(i).hb = None
               /\ Sess(i).sent = <<>>
               /\ waited[i] >= LivenessTimeout

C4_Witness ==
    \E i \in Invocations :
        /\ op[i] = "takeoff" /\ pc[i] = "done"
        /\ result[i] = MsgConnTimeout
        /\ Sess(i).sent = <<>>

\* C5: takeoff returns the success message for its altitude only if a
\* COMMAND_ACK was received within the 10 s wait and its result is ACCEPTED;
\* when the wait ended with no message or with another result, takeoff
\* returns the rejection error.
C5_TakeoffSuccessNeedsAcceptedAck ==
    \A i \in Invocations : op[i] = "takeoff" /\ Left(i) /\ result[i].kind = "str" =>
        /\ result[i] \in {MsgConnTimeout, MsgTakeoffRejected, MsgTakeoffStarted(arg[i].alt)}
        /\ result[i].msg = "TAKEOFF_STARTED" =>
               /\ msg[i] # None
               /\ msg[i][1].result = MAV_RESULT_ACCEPTED
               /\ waited[i] < AckTimeout
        /\ ("TAKEOFF" \in SentNames(i) /\ (msg[i] = None \/ msg[i][1].result # MAV_RESULT_ACCEPTED))
               => result[i] = MsgTakeoffRejected

C5_Witness ==
    \E i \in Invocations :
        /\ op[i] = "takeoff" /\ pc[i] = "done"
        /\ result[i] = MsgTakeoffStarted(15)
        /\ msg[i] # None

\* C6: a takeoff whose acknowledgement wait timed out (Unconfirmed) returns a
\* value different from the one takeoff returns for an acknowledgement with a
\* non-accepted result (Rejected).
C6_RejectedDiffersFromUnconfirmed ==
    \A i \in Invocations :
        (op[i] = "takeoff" /\ pc[i] = "done" /\ result[i].kind = "str"
            /\ "TAKEOFF" \in SentNames(i) /\ msg[i] = None)
        => result[i] # TakeoffResult(
               Some([command |-> "TAKEOFF", result |-> MAV_RESULT_FAILED]), arg[i].alt)

\* C7: change_mode with a name whose uppercase form is not in the mode table
\* sends no command at any point of the invocation, returns the invalid-mode
\* message with the name as given, and its connection is closed.
C7_InvalidModeSendsNothing ==
    \A i \in Invocations :
        (Opened(i) /\ op[i] = "change_mode" /\ Upper(arg[i].mode) \notin DOMAIN modeTable) =>
            /\ Sess(i).sent = <<>>
            /\ pc[i] \notin {"set_mode", "poll", "warn"}
            /\ (Left(i) /\ result[i].kind = "str") => result[i] = MsgInvalidMode(arg[i].mode)
            /\ pc[i] = "done" => Sess(i).closes = 1

C7_Witness ==
    \E i \in Invocations :
        /\ op[i] = "change_mode" /\ pc[i] = "done"
        /\ result[i].msg = "INVALID_MODE"
        /\ result[i].mode = <<"b","o","g","u","s">>
        /\ Sess(i).sent = <<>> /\ Sess(i).state = "closed"

\* C8: change_mode with a name whose uppercase form is in the mode table sends
\* exactly one mode-change request, for the id of the uppercase name, then
\* polls for at most 5 s.  It returns the success message naming the
\* uppercase mode iff a poll inside the window saw that mode; otherwise it
\* returns the warning naming the mode read when the window had expired.
\* Once the request is sent the operation ends with a return, not an exception.
C8_ChangeModeConfirmation ==
    \A i \in Invocations :
        (Opened(i) /\ op[i] = "change_mode" /\ Upper(arg[i].mode) \in DOMAIN modeTable) =>
        LET want == Upper(arg[i].mode) IN
            /\ pc[i] \in {"poll", "warn"} \/ (Left(i) /\ result[i].kind = "str") =>
                   Sess(i).sent = <<Cmd("SET_MODE", Some(modeTable[want]))>>
            /\ Len(Sess(i).sent) <= 1
            /\ (Left(i) /\ Sess(i).sent # <<>>) => result[i].kind = "str"
            /\ (Left(i) /\ result[i].kind = "str") =>
                   /\ result[i].msg \in {"MODE_CHANGED", "WARN_MODE_UNCONFIRMED"}
                   /\ result[i].msg = "MODE_CHANGED" <=> want \in polls[i]
                   /\ result[i].msg = "MODE_CHANGED" =>
                          result[i].mode = want /\ waited[i] < ModeConfirmWindow
                   /\ result[i].msg = "WARN_MODE_UNCONFIRMED" =>
                          /\ waited[i] >= ModeConfirmWindow
                          /\ result[i].mode = Sess(i).flightmode

\* A lowercase name is confirmed by a poll that is not the first one.
C8_Witness ==
    \E i \in Invocations :
        /\ op[i] = "change_mode" /\ pc[i] = "done"
        /\ arg[i].mode = <<"g","u","i","d","e","d">>
        /\ result[i] = Res("str", "MODE_CHANGED", GUIDED, 0, None)
        /\ Cardinality(polls[i]) = 2

\* C9: with invocations running concurrently, each uses and closes only the
\* connection it opened, no two invocations hold the same connection, and an
\* invocation that has been called always has a step of its own to take
\* (other than raising), whatever wait the others are blocked in.
C9_SessionsNotShared ==
    /\ \A s \in SessionIds : sessions[s].state # "none" =>
           /\ sessions[s].users \subseteq {sessions[s].owner}
           /\ sessions[s].closedBy \subseteq {sessions[s].owner}
    /\ \A i \in Invocations : Opened(i) => Sess(i).owner = i
    /\ \A i, j \in Invocations : (i # j /\ Opened(i) /\ Opened(j)) => conn[i] # conn[j]
    /\ \A j \in Invocations : pc[j] # "idle" => ENABLED Proceed(j)

\* One invocation hangs in disarm's unbounded heartbeat wait while another,
\* with a connection of its own, has run to completion.
C9_Witness ==
    \E i, j \in Invocations :
        /\ op[i] = "disarm" /\ pc[i] = "wait_heartbeat" /\ Sess(i).hb = None
        /\ pc[j] = "done" /\ Opened(j) /\ result[j].kind \in {"str", "dict"}
        /\ Sess(j).hb # None /\ Sess(j).state = "closed"
        /\ conn[i] # conn[j]

\* C10: no command is sent and no cached vehicle state (target ids, armed
\* flag, flight mode, mode table) is read on a connection before a heartbeat
\* has been received on that connection.
C10_NothingBeforeHeartbeat ==
    \A s \in SessionIds :
        /\ ~sessions[s].premature
        /\ sessions[s].sent # <<>> => sessions[s].hb # None

\* disarm has sent its command, after a heartbeat on its own connection.
C10_Witness ==
    \E i \in Invocations :
        /\ op[i] = "disarm" /\ pc[i] = "disarmed_wait"
        /\ Sess(i).sent = <<Cmd("DISARM", Some(0))>>
        /\ Sess(i).hb # None /\ ~Sess(i).premature

\* C11: disarm called twice in sequence, against a vehicle that sends
\* heartbeats and reports disarmed, succeeds both times: every disarm that
\* returns has opened a connection of its own, sent the disarm command
\* exactly once after a heartbeat, seen a heartbeat that reports disarmed,
\* returned the confirmation and closed its connection; a second call
\* returns what the first returned.
C11_DisarmTwice ==
    /\ \A i \in Invocations : (Opened(i) /\ op[i] = "disarm") =>
           /\ Sess(i).owner = i
           /\ Sess(i).sent \in {<<>>, <<Cmd("DISARM", Some(0))>>}
           /\ pc[i] \in {"wait_heartbeat", "disarm_send"} => Sess(i).sent = <<>>
           /\ (pc[i] = "done" /\ result[i].kind # "exception") =>
                  /\ result[i] = MsgDisarmed
                  /\ Sess(i).sent = <<Cmd("DISARM", Some(0))>>
                  /\ Sess(i).hb # None /\ ~Sess(i).armed
                  /\ Sess(i).closes = 1 /\ Sess(i).state = "closed"
    /\ \A i, j \in Invocations :
           (i # j /\ op[i] = "disarm" /\ op[j] = "disarm"
                /\ pc[i] = "done" /\ pc[j] = "done"
                /\ result[i].kind # "exception" /\ result[j].kind # "exception")
           => conn[i] # conn[j] /\ result[i] = result[j]

\* Two disarm calls, one after the other, have both returned the
\* confirmation, each over its own connection and with one command sent.
C11_Witness ==
    \E i, j \in Invocations :
        /\ i # j /\ op[i] = "disarm" /\ op[j] = "disarm"
        /\ pc[i] = "done" /\ pc[j] = "done"
        /\ result[i] = MsgDisarmed /\ result[j] = MsgDisarmed
        /\ conn[i] # conn[j]
        /\ Len(Sess(i).sent) = 1 /\ Len(Sess(j).sent) = 1
        /\ Sess(i).closes = 1 /\ Sess(j).closes = 1
        /\ ~vehArmed

\* C12: once a heartbeat has been seen, get_position answers a wait that
\* ended without telemetry with the error record, a mapping with an "error"
\* field, and raises nothing of its own (the only exceptions are those of the
\* connection library); it answers with a position record only when a
\* GLOBAL_POSITION_INT message was received before the 5 s wait ran out.
C12_PositionErrorRecord ==
    \A i \in Invocations : (op[i] = "get_position" /\ Left(i)) =>
        /\ result[i].kind \in {"dict", "exception"}
        /\ result[i].kind = "exception" =>
               /\ result[i].msg \in {"Exception", "ConnectError"}
               /\ msg[i] = None
        /\ result[i].kind = "dict" =>
               /\ Sess(i).hb # None
               /\ msg[i] = None =>
                      /\ result[i] = ErrNoPosition
                      /\ result[i].msg = "error" /\ result[i].data # None
                      /\ waited[i] >= PositionTimeout
               /\ msg[i] # None =>
                      /\ result[i] = PositionRecord(msg[i][1])
                      /\ result[i].msg = "position"
                      /\ waited[i] < PositionTimeout
        /\ result[i].msg = "position" => msg[i] \in {Some(p) : p \in PosSamples}

\* get_position has returned the error record after a heartbeat and a wait
\* of 5 s without telemetry, and has closed its connection.
C12_Witness ==
    \E i \in Invocations :
        /\ op[i] = "get_position" /\ pc[i] = "done"
        /\ result[i] = ErrNoPosition
        /\ Sess(i).hb # None /\ msg[i] = None
        /\ waited[i] >= PositionTimeout
        /\ Sess(i).state = "closed"

\* C14: every position record is the received GLOBAL_POSITION_INT message
\* scaled by fixed factors: latitude and longitude are the raw values over
\* 10^7, altitude and relative altitude over 1000, heading over 100 (each kept
\* as an exact quotient and remainder), the three velocities are the raw
\* values; raw lat = 123456780, alt = 10000, hdg = 9000 give 12.345678, 10.0
\* and 90.0.
C14_Exact(x, raw, d) ==
    x.d = d /\ x.q * d + x.r = raw /\ 0 <= x.r /\ x.r < d

C14_ScaleFactors ==
    \A i \in Invocations :
        (op[i] = "get_position" /\ result[i].msg = "position") =>
            LET p == msg[i][1]
                v == result[i].data[1]
            IN  /\ C14_Exact(v.latitude, p.lat, 10000000)
                /\ C14_Exact(v.longitude, p.lon, 10000000)
                /\ C14_Exact(v.altitude, p.alt, 1000)
                /\ C14_Exact(v.relative_alt, p.relative_alt, 1000)
                /\ C14_Exact(v.heading, p.hdg, 100)
                /\ v.velocity = [x |-> p.vx, y |-> p.vy, z |-> p.vz]
                /\ p.lat = 123456780 =>
                       v.latitude = [q |-> 12, r |-> 3456780, d |-> 10000000]
                /\ p.alt = 10000 => v.altitude = [q |-> 10, r |-> 0, d |-> 1000]
                /\ p.hdg = 9000 => v.heading = [q |-> 90, r |-> 0, d |-> 100]

\* get_position has returned the record of the message with lat = 123456780,
\* alt = 10000 and hdg = 9000.
C14_Witness ==
    \E i \in Invocations :
        /\ op[i] = "get_position" /\ pc[i] = "done"
        /\ result[i].msg = "position"
        /\ msg[i][1].lat = 123456780 /\ msg[i][1].alt = 10000
        /\ msg[i][1].hdg = 9000
        /\ result[i].data[1].latitude.q = 12
        /\ result[i].data[1].latitude.r = 3456780
        /\ result[i].data[1].heading.q = 90

\* C13: get_status raises nothing of its own (the only exceptions are those
\* of the connection library) and returns a record of armed, mode and
\* system_status read from the connection's cache: system_status is null when
\* no HEARTBEAT is cached, and is the system_status of the cached (most
\* recent) HEARTBEAT when there is one.
C13_StatusRecord ==
    \A i \in Invocations : (op[i] = "get_status" /\ Left(i)) =>
        /\ result[i].kind \in {"dict", "exception"}
        /\ result[i].kind = "exception" =>
               result[i].msg \in {"Exception", "ConnectError"}
        /\ result[i].kind = "dict" =>
               /\ result[i].msg = "status" /\ result[i].data # None
               /\ result[i].data[1].armed = Sess(i).armed
               /\ result[i].mode = Sess(i).flightmode
               /\ Sess(i).hb = None => result[i].data[1].system_status = None
               /\ Sess(i).hb # None =>
                      result[i].data[1].system_status =
                          Some(Sess(i).hb[1].system_status)

\* One get_status has returned system_status = null from a cache without a
\* heartbeat, another the status code of the heartbeat its cache holds.
C13_Witness ==
    \E i, j \in Invocations :
        /\ op[i] = "get_status" /\ pc[i] = "done"
        /\ Sess(i).hb = None
        /\ result[i].kind = "dict"
        /\ result[i].data[1].system_status = None
        /\ op[j] = "get_status" /\ pc[j] = "done"
        /\ Sess(j).hb # None
        /\ result[j].data[1].system_status = Some(MAV_STATE_ACTIVE)

\* C15: Person(name, age) is constructed exactly when the name is a str that
\* is non-empty, not only whitespace and at most 100 characters long and the
\* age is an int from 0 to 150; otherwise it raises, the name judged before
\* the age: TypeError for a name that is not a str, ValueError for an empty,
\* blank or over-long name, TypeError for an age that is not an int,
\* ValueError for an age out of range.
C15_NameOk(name) ==
    /\ name.type = "str"
    /\ Len(name.s) > 0
    /\ \E k \in 1..Len(name.s) : ~IsSpace(name.s[k])
    /\ Len(name.s) <= 100

C15_AgeOk(age) == age.type = "int" /\ 0 <= age.n /\ age.n <= 150

C15_Expected(name, age) ==
    IF name.type # "str" THEN "TypeError"
    ELSE IF ~C15_NameOk(name) THEN "ValueError"
    ELSE IF age.type # "int" THEN "TypeError"
    ELSE IF ~C15_AgeOk(age) THEN "ValueError"
    ELSE ""

C15_PersonValidation ==
    person.pc \in {"constructed", "raised"} =>
        /\ person.pc = "constructed" <=>
               (C15_NameOk(person.name) /\ C15_AgeOk(person.age))
        /\ person.error.type = C15_Expected(person.name, person.age)

\* C16: every step of a takeoff that has its connection sends at most one
\* command, appended to what was sent: a SET_MODE is the first command, sent
\* in the step that reads conn.flightmode after the heartbeat, if and only if
\* that flight mode is not GUIDED, and carries the table's id for GUIDED; ARM
\* follows with nothing but that SET_MODE before it; TAKEOFF follows ARM
\* directly, and only when the connection's last heartbeat reported the motors
\* armed.
C16_Names(s) == {s[k].name : k \in 1..Len(s)}

C16_Step(i) ==
    LET ss == sessions[conn[i]]
        s == ss.sent
        t == sessions'[conn[i]].sent
    IN  /\ t = s \/ (Len(t) = Len(s) + 1 /\ SubSeq(t, 1, Len(s)) = s)
        /\ (pc[i] = "check_mode" /\ pc'[i] = "arm_send") =>
               (t # s <=> ss.flightmode # GUIDED)
        /\ t # s =>
               LET c == t[Len(t)] IN
               CASE c.name = "SET_MODE" ->
                        /\ pc[i] = "check_mode" /\ s = <<>>
                        /\ ss.hb # None /\ ss.flightmode # GUIDED
                        /\ c.param = Get(modeTable, GUIDED)
                 [] c.name = "ARM" ->
                        /\ pc[i] = "arm_send"
                        /\ C16_Names(s) \subseteq {"SET_MODE"}
                 [] c.name = "TAKEOFF" ->
                        /\ s # <<>> /\ s[Len(s)] = Cmd("ARM", Some(1))
                        /\ ss.armed /\ ss.hb # None /\ ss.hb[1].armed
                        /\ c.param = Some(arg[i].alt)
                 [] OTHER -> FALSE

C16_TakeoffOrder ==
    [][\A i \in Invocations :
           (op[i] = "takeoff" /\ op'[i] = "takeoff" /\ Opened(i) /\ conn'[i] = conn[i])
               => C16_Step(i)]_vars

\* takeoff has sent SET_MODE, ARM and TAKEOFF, in this order, the last after
\* a heartbeat that reported the motors armed.
C16_Witness ==
    \E i \in Invocations :
        /\ op[i] = "takeoff" /\ pc[i] = "ack_wait"
        /\ Len(Sess(i).sent) = 3
        /\ Sess(i).sent[1].name = "SET_MODE"
        /\ Sess(i).sent[2].name = "ARM"
        /\ Sess(i).sent[3].name = "TAKEOFF"
        /\ Sess(i).armed

\* C17: in every step of an invocation that has its connection, no command
\* name occurs twice among the commands sent; the step that ends the sequence
\* (a timeout, an exception, a rejected or missing acknowledgement, or the
\* operation's answer) sends nothing and leads to the finally block; nothing
\* is sent after it; and the step that leaves the finally block is the one
\* close() of the connection.
C17_Step(i) ==
    LET ss == sessions[conn[i]]
        tt == sessions'[conn[i]]
    IN  /\ \A k, m \in 1..Len(tt.sent) :
               k # m => tt.sent[k].name # tt.sent[m].name
        /\ Len(tt.sent) <= Len(ss.sent) + 1
        /\ (result[i] = NoResult /\ result'[i] # NoResult) =>
               /\ tt.sent = ss.sent
               /\ pc'[i] = "finally"
               /\ tt.state = "open"
        /\ result[i] # NoResult => tt.sent = ss.sent
        /\ (pc[i] = "finally" /\ pc'[i] # "finally") =>
               /\ pc'[i] = "done"
               /\ tt.state = "closed" /\ tt.closes = ss.closes + 1
        /\ pc'[i] \in {"finally", "done"} => result'[i] # NoResult

C17_NoRetryNoSendAfterFailure ==
    [][\A i \in Invocations :
           (Opened(i) /\ conn'[i] = conn[i]) => C17_Step(i)]_vars

\* takeoff has answered a missing or refused acknowledgement with the
\* rejection, having sent each of its three commands once, and has closed.
C17_Witness ==
    \E i \in Invocations :
        /\ op[i] = "takeoff" /\ pc[i] = "done"
        /\ result[i] = MsgTakeoffRejected
        /\ SentNames(i) = {"SET_MODE", "ARM", "TAKEOFF"}
        /\ Len(Sess(i).sent) = 3
        /\ Sess(i).state = "closed" /\ Sess(i).closes = 1

\* C18: takeoff never answers with the invalid-mode message; when the mode
\* table has no entry for GUIDED (so the flight mode read is not GUIDED), a
\* takeoff that has passed its mode check without an exception has sent, as
\* its first command, a SET_MODE that carries the null id of the lookup.
C18_PastModeCheck(i) ==
    \/ pc[i] \in {"arm_send", "armed_wait", "takeoff_send", "ack_wait"}
    \/ Left(i) /\ result[i].kind = "str" /\ result[i] # MsgConnTimeout

C18_TakeoffUnguardedLookup ==
    \A i \in Invocations : (op[i] = "takeoff" /\ Opened(i)) =>
        /\ result[i].msg # "INVALID_MODE"
        /\ (GUIDED \notin DOMAIN modeTable /\ C18_PastModeCheck(i)) =>
               /\ Sess(i).sent # <<>>
               /\ Sess(i).sent[1] = Cmd("SET_MODE", None)

\* With a mode table that lacks GUIDED, takeoff has sent SET_MODE with the
\* null id and stands before its arm command.
C18_Witness ==
    \E i \in Invocations :
        /\ op[i] = "takeoff" /\ pc[i] = "arm_send"
        /\ GUIDED \notin DOMAIN modeTable
        /\ Sess(i).flightmode # GUIDED
        /\ Sess(i).sent = <<Cmd("SET_MODE", None)>>
        /\ result[i] = NoResult

\* C19: takeoff answers with the success message only when the
\* acknowledgement it took from the connection is the vehicle's answer to its
\* TAKEOFF command, not one left over from its SET_MODE or ARM.
C19_SuccessAcksTakeoff ==
    \A i \in Invocations :
        (op[i] = "takeoff" /\ result[i].msg = "TAKEOFF_STARTED") =>
            /\ msg[i] # None
            /\ msg[i][1].command = "TAKEOFF"
            /\ msg[i][1].result = MAV_RESULT_ACCEPTED

\* C20: takeoff undoes nothing: it never sends DISARM, and the only SET_MODE
\* it sends is the first command, with the table's id for GUIDED; when it has
\* returned the rejection (which it does only after the arm step) the vehicle
\* is armed and in the flight mode it had when the arm step ended, also after
\* the connection is closed.
C20_TakeoffNoRollback ==
    \A i \in Invocations : (op[i] = "takeoff" /\ Opened(i)) =>
        /\ "DISARM" \notin SentNames(i)
        /\ \A k \in 1..Len(Sess(i).sent) :
               Sess(i).sent[k].name = "SET_MODE" =>
                   k = 1 /\ Sess(i).sent[k].param = Get(modeTable, GUIDED)
        /\ (Left(i) /\ result[i] = MsgTakeoffRejected) =>
               /\ {"ARM", "TAKEOFF"} \subseteq SentNames(i)
               /\ Sess(i).armed
               /\ vehArmed
               /\ vehMode = Sess(i).flightmode

\* takeoff has sent ARM and TAKEOFF, returned the rejection and closed its
\* connection; the vehicle is armed.
C20_Witness ==
    \E i \in Invocations :
        /\ op[i] = "takeoff" /\ pc[i] = "done"
        /\ result[i] = MsgTakeoffRejected
        /\ Sess(i).state = "closed"
        /\ {"ARM", "TAKEOFF"} \subseteq SentNames(i)
        /\ Sess(i).armed
        /\ vehArmed
        /\ "DISARM" \notin SentNames(i)

====
